---- MODULE Spec2Model ----
(***************************************************************************)
(* DailyWell asset generator scripts.                                      *)
(*   generate_assets_comfyui.py : drives a ComfyUI server over HTTP        *)
(*   generate_assets.py         : standalone inference on raw checkpoints  *)
(* Strings that the code inspects character by character (the command      *)
(* word) are sequences of one-character strings; asset names are the       *)
(* sequence of their '_'-separated words ("habit_rest" is                  *)
(* <<"habit","rest">>), so that startswith('bg_') is a test on the first   *)
(* word.                                                                   *)
(***************************************************************************)
EXTENDS Integers, Sequences, FiniteSets, TLC

\* ------------------------------------------------------------------ bounds
MaxFaults == 1      \* asset attempts of one run in which the environment may misbehave
MaxNodes == 2       \* output nodes in one history entry
MaxTimeout == 3     \* timeout argument when wait_for_completion is called alone
MaxChannels == 4    \* channels of a latent decoded on its own (from 3)
MaxSide == 2        \* height and width of a latent
MaxPattern == 1     \* latent contents tried per shape (from 0)
MaxSteps == 10      \* the steps argument of generate_with_ai
ContextKept == 4    \* entries of the context tensor that are kept

\* ------------------------------------------------------- program constants
ComfyPort == 8001           \* port of COMFYUI_URL
DocumentedPort == 8188      \* port the docstrings and messages name
DefaultTimeout == 300       \* wait_for_completion(prompt_id, timeout=300)
SleepSeconds == 1           \* time.sleep(1)

COMFYUI_URL == [host |-> "127.0.0.1", port |-> ComfyPort]

Missing == "<missing>"
None == "None"

\* ------------------------------------------------------------ asset tables
Asset(name, w, h) == [name |-> name, filename |-> name, width |-> w, height |-> h]

\* generate_assets.py
ASSETS ==
  << Asset(<<"habit","rest">>, 256, 256),
     Asset(<<"habit","hydrate">>, 256, 256),
     Asset(<<"habit","move">>, 256, 256),
     Asset(<<"habit","nourish">>, 256, 256),
     Asset(<<"habit","calm">>, 256, 256),
     Asset(<<"habit","connect">>, 256, 256),
     Asset(<<"habit","unplug">>, 256, 256),
     Asset(<<"badge","streak","7">>, 256, 256),
     Asset(<<"badge","streak","30">>, 256, 256),
     Asset(<<"badge","streak","100">>, 256, 256),
     Asset(<<"badge","first","habit">>, 256, 256),
     Asset(<<"badge","perfect","week">>, 256, 256),
     Asset(<<"badge","early","bird">>, 256, 256),
     Asset(<<"badge","night","owl">>, 256, 256),
     Asset(<<"badge","comeback">>, 256, 256),
     Asset(<<"coach","sam">>, 256, 256),
     Asset(<<"coach","alex">>, 256, 256),
     Asset(<<"coach","dana">>, 256, 256),
     Asset(<<"coach","grace">>, 256, 256),
     Asset(<<"bg","dashboard">>, 1080, 1920),
     Asset(<<"bg","insights">>, 1080, 1920),
     Asset(<<"bg","settings">>, 1080, 1920),
     Asset(<<"bg","profile">>, 1080, 1920) >>

\* mutant: the ComfyUI table is a copy of the standalone one (coaches 256x256)
ASSETS_comfyuiCopied == ASSETS

\* generate_assets_comfyui.py
ASSETS_comfyui ==
  << Asset(<<"habit","rest">>, 256, 256),
     Asset(<<"habit","hydrate">>, 256, 256),
     Asset(<<"habit","move">>, 256, 256),
     Asset(<<"habit","nourish">>, 256, 256),
     Asset(<<"habit","calm">>, 256, 256),
     Asset(<<"habit","connect">>, 256, 256),
     Asset(<<"habit","unplug">>, 256, 256),
     Asset(<<"badge","streak","7">>, 256, 256),
     Asset(<<"badge","streak","30">>, 256, 256),
     Asset(<<"badge","streak","100">>, 256, 256),
     Asset(<<"badge","first","habit">>, 256, 256),
     Asset(<<"badge","perfect","week">>, 256, 256),
     Asset(<<"badge","early","bird">>, 256, 256),
     Asset(<<"badge","night","owl">>, 256, 256),
     Asset(<<"badge","comeback">>, 256, 256),
     Asset(<<"coach","sam">>, 512, 512),
     Asset(<<"coach","alex">>, 512, 512),
     Asset(<<"coach","dana">>, 512, 512),
     Asset(<<"coach","grace">>, 512, 512),
     Asset(<<"bg","dashboard">>, 1080, 1920),
     Asset(<<"bg","insights">>, 1080, 1920),
     Asset(<<"bg","settings">>, 1080, 1920),
     Asset(<<"bg","profile">>, 1080, 1920) >>

Scripts == {"generate_assets.py", "generate_assets_comfyui.py"}

AssetsOf(s) == IF s = "generate_assets.py" THEN ASSETS ELSE ASSETS_comfyui

\* name.startswith(prefix + '_')
StartsWith(name, prefix) == Len(name) > 1 /\ name[1] = prefix

Filenames == {ASSETS[i].filename : i \in 1..Len(ASSETS)}
               \cup {ASSETS_comfyui[i].filename : i \in 1..Len(ASSETS_comfyui)}

\* ----------------------------------------------------------------- strings
UpperCase == <<"A","B","C","D","E","F","G","H","I","J","K","L","M",
               "N","O","P","Q","R","S","T","U","V","W","X","Y","Z">>
LowerCase == <<"a","b","c","d","e","f","g","h","i","j","k","l","m",
               "n","o","p","q","r","s","t","u","v","w","x","y","z">>

LowerChar(c) ==
  IF \E i \in 1..Len(UpperCase) : UpperCase[i] = c
  THEN LowerCase[CHOOSE i \in 1..Len(UpperCase) : UpperCase[i] = c]
  ELSE c

\* str.lower()
Lower(s) == [i \in 1..Len(s) |-> LowerChar(s[i])]

W_test == <<"t","e","s","t">>
W_generate == <<"g","e","n","e","r","a","t","e">>
W_ai == <<"a","i">>
W_placeholders == <<"p","l","a","c","e","h","o","l","d","e","r","s">>
W_help == <<"h","e","l","p">>
W_check == <<"c","h","e","c","k">>

\* first command-line arguments tried: every command word in lower, upper
\* and mixed case, and words that are no command of either script
Args ==
  { W_test, <<"T","E","S","T">>, <<"T","e","s","t">>,
    W_generate, <<"G","e","N","E","R","a","t","e">>,
    W_ai, <<"A","i">>,
    W_placeholders, <<"P","l","a","c","e","h","o","l","d","e","r","s">>,
    W_help, <<"H","E","L","P">>, <<"h","e","L","p">>,
    W_check, <<"C","H","E","C","K">>, <<"C","h","e","c","k">>,
    <<"r","u","n">>, <<"h","e","l","p","s">>, <<"-","-","h","e","l","p">>, <<>> }

\* sys.argv[1:2]
Argvs == {<<>>} \cup {<<a>> : a \in Args}

\* -------------------------------------------------------------- exceptions
ExceptionKinds == {"URLError", "HTTPError", "KeyError", "OSError", "JSONDecodeError",
                   "RuntimeError"}
BaseExceptionKinds == ExceptionKinds \cup {"KeyboardInterrupt"}

\* mutant: the handler names the network errors only
CatchesOnlyNetworkErrors(kind) == kind \in {"URLError", "HTTPError"}

\* `except Exception as e:` of generate_asset_comfyui
CatchesException(kind) == kind \in ExceptionKinds

\* the bare `except:` of check_comfyui_running
CatchesBare(kind) == kind \in BaseExceptionKinds

\* ------------------------------------------------------------------- state
VARIABLES
  script,         \* the script run, or the function called on its own
  argv,           \* sys.argv[1:2]
  pc,             \* position in the code
  out,            \* messages printed so far (the per-asset progress lines are left out)
  ran,            \* operations of the scripts that were started
  crash,          \* kind of the exception that ended the process, or None
  health,         \* what the last /system_stats request met, or None
  fs,             \* OUTPUT_DIR: filename -> content (Missing when absent)
  dirExists,      \* whether OUTPUT_DIR exists
  modelFiles,     \* checkpoint files present under MODEL_DIR
  loaded,         \* checkpoints that load_file has loaded
  idx,            \* position of the asset loop (1-based)
  success_count,  \* success_count / success of the generate loops
  faults,         \* asset attempts in which the environment misbehaved so far
  ret,            \* return value of the last generate_asset_comfyui call
  requests,       \* HTTP requests sent so far
  prompt_id,      \* prompt_id returned by queue_prompt
  images,         \* value returned by wait_for_completion
  elapsed,        \* time.time() - start_time
  timeout,        \* timeout argument of wait_for_completion
  att,            \* what happened in the current asset attempt
  wfc,            \* what the polls of the current wait showed
  ai              \* the tensors and arguments of generate_with_ai / decode_vae_simple

cliVars == <<script, argv, ran>>
loopVars == <<idx, success_count, faults, ret>>
waitVars == <<prompt_id, images, elapsed, timeout, wfc>>
diskVars == <<fs, dirExists, modelFiles, loaded>>

vars == <<script, argv, pc, out, ran, crash, health, fs, dirExists, modelFiles,
          loaded, idx, success_count, faults, ret, requests, prompt_id, images,
          elapsed, timeout, att, wfc, ai>>

\* ------------------------------------------------------ ComfyUI HTTP client
Request(path) ==
  [host |-> COMFYUI_URL.host, port |-> COMFYUI_URL.port, path |-> path]

\* mutant: any status below 300 counts as running
CheckStatusAny2xx(status) == status \in {"200", "204"}

\* response.status == 200
CheckStatus(status) == status = "200"

HealthResponses ==
  {[kind |-> "status", val |-> "200"], [kind |-> "status", val |-> "204"]}
    \cup {[kind |-> "raise", val |-> k] : k \in {"URLError", "HTTPError", "KeyboardInterrupt"}}

PromptIds == {"p1", "p2"}

QueueResponses ==
  {[kind |-> "ok", val |-> "p1"], [kind |-> "ok", val |-> None]}
    \cup {[kind |-> "raise", val |-> k] :
            k \in {"URLError", "HTTPError", "JSONDecodeError", "KeyboardInterrupt"}}

\* entries of a node's 'images' list
ImgA == [filename |-> "DailyWell_00001_.png", subfolder |-> "", type |-> "output"]
ImgB == [filename |-> "DailyWell_00002_.png", subfolder |-> Missing, type |-> "temp"]
ImgNoType == [filename |-> "DailyWell_00003_.png", subfolder |-> "", type |-> Missing]

ImageLists == {<<>>, <<ImgA>>, <<ImgA, ImgB>>, <<ImgNoType>>}

Nodes == {[hasImages |-> FALSE, images |-> <<>>]}
           \cup {[hasImages |-> TRUE, images |-> l] : l \in ImageLists}

SeqsUpTo(S, n) == UNION {[1..k -> S] : k \in 0..n}

\* the JSON object returned by /history/<id>: the prompt ids it has as keys,
\* and the 'outputs' object of its entries, in the order of the document
Histories(n) ==
  {[kind |-> "ok", val |-> None, keys |-> ks, outputs |-> o] :
      ks \in {{}, {"p1"}, {"p2"}}, o \in SeqsUpTo(Nodes, n)}
    \cup {[kind |-> "raise", val |-> k, keys |-> {}, outputs |-> <<>>] :
            k \in {"URLError", "HTTPError", "JSONDecodeError", "KeyboardInterrupt"}}

HistoryResponses == Histories(MaxNodes)

\* the histories a run of the whole script is tried with
ScriptHistories == Histories(1)

NoneValue == [isNone |-> TRUE, items |-> <<>>]
ListValue(l) == [isNone |-> FALSE, items |-> l]

\* `if images:`
Truthy(v) == ~v.isNone /\ Len(v.items) > 0

\* mutant: the loop over the nodes has no early return, so the last node wins
LastImagesNode(outputs) ==
  IF \E k \in 1..Len(outputs) : outputs[k].hasImages
  THEN CHOOSE k \in 1..Len(outputs) :
         outputs[k].hasImages /\ \A j \in (k + 1)..Len(outputs) : ~outputs[j].hasImages
  ELSE 0

\* for node_id, node_output in outputs.items(): if 'images' in node_output
FirstImagesNode(outputs) ==
  IF \E k \in 1..Len(outputs) : outputs[k].hasImages
  THEN CHOOSE k \in 1..Len(outputs) :
         outputs[k].hasImages /\ \A j \in 1..(k - 1) : ~outputs[j].hasImages
  ELSE 0

\* `if outputs:`
OutputsTruthy(outputs) == Len(outputs) > 0

\* one iteration body of wait_for_completion on the history just fetched:
\* the value to return, or found = FALSE to go on to time.sleep(1)
PollResult(history, pid) ==
  IF pid \in history.keys /\ OutputsTruthy(history.outputs)
       /\ FirstImagesNode(history.outputs) # 0
  THEN [found |-> TRUE,
        value |-> ListValue(history.outputs[FirstImagesNode(history.outputs)].images)]
  ELSE [found |-> FALSE, value |-> NoneValue]

\* while time.time() - start_time < timeout
WaitGoesOn(e, t) == e < t

NoAttempt == [queued |-> FALSE, downloaded |-> FALSE, written |-> FALSE,
              bytes |-> Missing, asset |-> 0, width |-> 0, height |-> 0,
              deviant |-> FALSE]

\* the attempt on the asset at position i of table: its size goes into the
\* workflow (workflow["5"]["inputs"]) or into generate_with_ai / create_*
AttemptOn(table, i) ==
  [NoAttempt EXCEPT !.asset = i, !.width = table[i].width, !.height = table[i].height]
NoWait == [polls |-> 0, shown |-> FALSE, first |-> NoneValue, status |-> "idle"]

\* latencies of one /history request, in seconds
SlowLatencies == {99, 299}
GoodLatency == 99
FastLatencies == {0, 1}

\* the environment may leave its usual behaviour (answer at once, with one
\* image, every write succeeding) only in MaxFaults attempts of a run
CanFault == att.deviant \/ faults < MaxFaults

\* ------------------------------------------- generate_assets_comfyui.py main
ComfyScript == "generate_assets_comfyui.py"

\* mutant: without an argument the script prints the instructions
ComfyDispatchDefaultHelp(av) ==
  IF Len(av) > 0
  THEN LET cmd == Lower(av[1]) IN
       CASE cmd = W_help -> "help"
         [] cmd = W_check -> "check"
         [] cmd = W_generate -> "generate_all"
         [] OTHER -> "unknown"
  ELSE "help"

\* the branch of the __main__ block taken for sys.argv[1:2]
ComfyDispatch(av) ==
  IF Len(av) > 0
  THEN LET cmd == Lower(av[1]) IN
       CASE cmd = W_help -> "help"
         [] cmd = W_check -> "check"
         [] cmd = W_generate -> "generate_all"
         [] OTHER -> "unknown"
  ELSE "generate_all"

ComfyMain ==
  /\ pc = "main" /\ script = ComfyScript
  /\ LET branch == ComfyDispatch(argv) IN
       /\ ran' = ran \cup {branch}
       /\ pc' = CASE branch = "help" -> "exit"
                  [] branch = "check" -> "cli_check"
                  [] branch = "generate_all" -> "ga_check"
                  [] OTHER -> "exit"
       /\ out' = CASE branch = "help" -> out \cup {"instructions"}
                   [] branch = "generate_all" -> out \cup {"banner"}
                   [] branch = "unknown" -> out \cup {"Unknown command", "Usage"}
                   [] OTHER -> out
  /\ UNCHANGED <<script, argv, ai, health, crash, requests, att, diskVars, loopVars, waitVars>>

\* check_comfyui_running, and what its two callers do with the result
CheckComfyuiRunning(resp) ==
  /\ pc \in {"cli_check", "ga_check"}
  /\ requests' = requests \cup {Request("/system_stats")}
  /\ health' = resp.val
  /\ IF resp.kind = "raise" /\ ~CatchesBare(resp.val)
     THEN /\ pc' = "crashed" /\ crash' = resp.val /\ out' = out
     ELSE LET running == resp.kind = "status" /\ CheckStatus(resp.val) IN
          /\ crash' = crash
          /\ IF pc = "cli_check"
             THEN /\ pc' = "exit"
                  /\ out' = out \cup {IF running THEN "ComfyUI is running!"
                                      ELSE "ComfyUI is NOT running"}
             ELSE IF running
                  THEN pc' = "ga_mkdir" /\ out' = out \cup {"ComfyUI connected!"}
                  ELSE pc' = "exit" /\ out' = out \cup {"[ERROR] ComfyUI is not running!"}
  /\ UNCHANGED <<cliVars, ai, att, diskVars, loopVars, waitVars>>

\* OUTPUT_DIR.mkdir(parents=True, exist_ok=True); success_count = 0
GaMkdir(ok) ==
  /\ pc = "ga_mkdir"
  /\ IF ok
     THEN /\ dirExists' = TRUE /\ idx' = 1 /\ success_count' = 0
          /\ pc' = "ga_loop" /\ crash' = crash
     ELSE /\ pc' = "crashed" /\ crash' = "OSError"
          /\ UNCHANGED <<dirExists, idx, success_count>>
  /\ UNCHANGED <<cliVars, ai, health, out, fs, modelFiles, loaded, faults, ret, requests, att, waitVars>>

\* for asset_name, asset_config in ASSETS.items(): ... ; the summary after it
GaLoop ==
  /\ pc = "ga_loop"
  /\ IF idx <= Len(ASSETS_comfyui)
     THEN /\ pc' = "gen_queue"
          /\ att' = AttemptOn(ASSETS_comfyui, idx)
          /\ wfc' = NoWait
          /\ ret' = None
          /\ out' = out
     ELSE /\ pc' = "exit"
          /\ out' = out \cup {"Done"}
          /\ UNCHANGED <<att, wfc, ret>>
  /\ UNCHANGED <<cliVars, ai, health, crash, diskVars, idx, success_count, faults, requests,
                 prompt_id, images, elapsed, timeout>>

\* the except clause of generate_asset_comfyui, or the exception leaving it
AttemptRaise(kind) ==
  IF CatchesException(kind)
  THEN /\ ret' = "False" /\ pc' = "gen_ret" /\ crash' = crash
       /\ out' = out
  ELSE /\ ret' = ret /\ pc' = "crashed" /\ crash' = kind /\ out' = out

GoodQueue == [kind |-> "ok", val |-> "p1"]

\* prompt_id = queue_prompt(workflow), then the call of wait_for_completion
GenQueue(resp) ==
  /\ pc = "gen_queue"
  /\ resp = GoodQueue \/ CanFault
  /\ requests' = requests \cup {Request("/prompt")}
  /\ IF resp.kind = "ok"
     THEN /\ prompt_id' = resp.val
          /\ timeout' = DefaultTimeout
          /\ att' = [att EXCEPT !.queued = TRUE, !.deviant = @ \/ resp # GoodQueue]
          /\ pc' = "wfc_start"
          /\ UNCHANGED <<ret, crash, out>>
     ELSE /\ AttemptRaise(resp.val)
          /\ att' = [att EXCEPT !.deviant = TRUE]
          /\ UNCHANGED <<prompt_id, timeout>>
  /\ UNCHANGED <<cliVars, ai, health, diskVars, idx, success_count, faults, images, elapsed, wfc>>

\* ------------------------------------------------------ wait_for_completion
WaitAlone == "wait_for_completion"

\* whether a fetched history has an entry for pid with a node that has 'images'
ShowsImages(h, pid) ==
  /\ h.kind = "ok"
  /\ pid \in h.keys
  /\ \E k \in 1..Len(h.outputs) : h.outputs[k].hasImages

\* the 'images' list of the earliest such node
ShownImages(h) ==
  LET k == CHOOSE i \in 1..Len(h.outputs) :
             h.outputs[i].hasImages /\ \A j \in 1..Len(h.outputs) :
                                          h.outputs[j].hasImages => i <= j
  IN ListValue(h.outputs[k].images)

GoodHistory(pid) ==
  [kind |-> "ok", val |-> None, keys |-> {pid},
   outputs |-> <<[hasImages |-> TRUE, images |-> <<ImgA>>]>>]

\* start_time = time.time()
WfcStart ==
  /\ pc = "wfc_start"
  /\ elapsed' = 0
  /\ wfc' = [NoWait EXCEPT !.status = "running"]
  /\ pc' = "wfc_check"
  /\ UNCHANGED <<cliVars, ai, health, out, crash, diskVars, loopVars, requests, prompt_id,
                 images, timeout, att>>

\* where a return of wait_for_completion continues
WfcReturnPc == IF script = ComfyScript THEN "gen_images" ELSE "wfc_done"

\* the loop condition; `return None` once it is false
WfcCheck ==
  /\ pc = "wfc_check"
  /\ IF WaitGoesOn(elapsed, timeout)
     THEN pc' = "wfc_poll" /\ UNCHANGED <<images, wfc>>
     ELSE /\ images' = NoneValue
          /\ wfc' = [wfc EXCEPT !.status = "returned"]
          /\ pc' = WfcReturnPc
  /\ UNCHANGED <<cliVars, ai, health, out, crash, diskVars, loopVars, requests, prompt_id,
                 elapsed, timeout, att>>

\* history = get_history(prompt_id) taking lat seconds, and the loop body on it
WfcPoll(lat, h) ==
  /\ pc = "wfc_poll"
  /\ script = ComfyScript =>
        ((h = GoodHistory(prompt_id) /\ lat = GoodLatency) \/ CanFault)
  /\ att' = [att EXCEPT !.deviant = @ \/ h # GoodHistory(prompt_id) \/ lat # GoodLatency]
  /\ requests' = requests \cup {Request("/history/<prompt_id>")}
  /\ elapsed' = elapsed + lat
  /\ IF h.kind = "raise"
     THEN /\ wfc' = [wfc EXCEPT !.polls = @ + 1, !.status = "raised"]
          /\ images' = images
          /\ IF script = ComfyScript
             THEN AttemptRaise(h.val)
             ELSE pc' = "wfc_done" /\ crash' = h.val /\ UNCHANGED <<ret, out>>
     ELSE LET r == PollResult(h, prompt_id) IN
          /\ wfc' = [wfc EXCEPT !.polls = @ + 1,
                                !.shown = @ \/ ShowsImages(h, prompt_id),
                                !.first = IF ~wfc.shown /\ ShowsImages(h, prompt_id)
                                          THEN ShownImages(h) ELSE @,
                                !.status = IF r.found THEN "returned" ELSE @]
          /\ IF r.found
             THEN images' = r.value /\ pc' = WfcReturnPc
             ELSE images' = images /\ pc' = "wfc_sleep"
          /\ UNCHANGED <<ret, crash, out>>
  /\ UNCHANGED <<cliVars, ai, health, diskVars, idx, success_count, faults, prompt_id, timeout>>

\* time.sleep(1)
WfcSleep ==
  /\ pc = "wfc_sleep"
  /\ elapsed' = elapsed + SleepSeconds
  /\ pc' = "wfc_check"
  /\ UNCHANGED <<cliVars, ai, health, out, crash, diskVars, loopVars, requests, prompt_id,
                 images, timeout, att, wfc>>

\* ------------------------------------------------- generate_asset_comfyui
\* `if images:` ... else: print timeout, return False
GenImages ==
  /\ pc = "gen_images"
  /\ IF Truthy(images)
     THEN pc' = "gen_download" /\ UNCHANGED <<ret, out>>
     ELSE /\ ret' = "False" /\ pc' = "gen_ret"
          /\ out' = out
  /\ UNCHANGED <<cliVars, ai, health, crash, diskVars, idx, success_count, faults, requests,
                 waitVars, att>>

ViewResponses ==
  {[kind |-> "ok", val |-> None]}
    \cup {[kind |-> "raise", val |-> k] : k \in {"URLError", "HTTPError", "KeyboardInterrupt"}}

\* img_info.get('subfolder', '')
SubfolderOf(img) == IF img.subfolder = Missing THEN "" ELSE img.subfolder

\* img_data = get_image(img_info['filename'], img_info.get('subfolder', ''), img_info['type'])
GenDownload(resp) ==
  /\ pc = "gen_download"
  /\ resp.kind = "ok" \/ CanFault
  /\ LET img == images.items[1] IN
     IF img.filename = Missing \/ img.type = Missing
     THEN /\ AttemptRaise("KeyError")
          /\ resp.kind = "ok"
          /\ UNCHANGED <<requests, att>>
     ELSE /\ requests' = requests \cup
                 {Request("/view")}
          /\ IF resp.kind = "ok"
             THEN /\ att' = [att EXCEPT !.downloaded = TRUE, !.bytes = img.filename]
                  /\ pc' = "gen_save"
                  /\ UNCHANGED <<ret, crash, out>>
             ELSE /\ AttemptRaise(resp.val)
                  /\ att' = [att EXCEPT !.deviant = TRUE]
  /\ UNCHANGED <<cliVars, ai, health, diskVars, idx, success_count, faults, waitVars>>

SaveOutcomes == {"ok", "mkdir fails", "open fails", "write fails"}

\* output_path.parent.mkdir(...); with open(output_path, 'wb') as f: f.write(img_data)
GenSave(outcome) ==
  /\ pc = "gen_save"
  /\ outcome = "ok" \/ CanFault
  /\ LET file == ASSETS_comfyui[idx].filename IN
     CASE outcome = "ok" ->
            /\ dirExists' = TRUE
            /\ fs' = [fs EXCEPT ![file] = att.bytes]
            /\ att' = [att EXCEPT !.written = TRUE]
            /\ ret' = "True" /\ pc' = "gen_ret" /\ crash' = crash
            /\ out' = out
       [] outcome = "mkdir fails" ->
            /\ AttemptRaise("OSError")
            /\ att' = [att EXCEPT !.deviant = TRUE]
            /\ UNCHANGED <<dirExists, fs>>
       [] outcome = "open fails" ->
            /\ AttemptRaise("OSError")
            /\ dirExists' = TRUE
            /\ att' = [att EXCEPT !.deviant = TRUE]
            /\ fs' = fs
       [] OTHER ->
            /\ AttemptRaise("OSError")
            /\ dirExists' = TRUE
            /\ fs' = [fs EXCEPT ![file] = "truncated"]
            /\ att' = [att EXCEPT !.deviant = TRUE]
  /\ UNCHANGED <<cliVars, ai, health, modelFiles, loaded, idx, success_count, faults, requests,
                 waitVars>>

\* mutant: every attempt is counted
CountedAlways(r) == TRUE

\* if generate_asset_comfyui(asset_name, asset_config):
Counted(r) == r = "True"

\* if generate_asset_comfyui(asset_name, asset_config): success_count += 1
GenRet ==
  /\ pc = "gen_ret"
  /\ success_count' = IF Counted(ret) THEN success_count + 1 ELSE success_count
  /\ faults' = IF att.deviant THEN faults + 1 ELSE faults
  /\ idx' = idx + 1
  /\ pc' = "ga_loop"
  \* the locals of the call end with it
  /\ prompt_id' = None /\ images' = NoneValue /\ elapsed' = 0
  /\ wfc' = NoWait /\ att' = NoAttempt /\ ret' = None
  /\ UNCHANGED <<cliVars, ai, health, out, crash, diskVars, requests, timeout>>

\* ---------------------------------------------------- generate_assets.py main
StandaloneScript == "generate_assets.py"

\* TRANSFORMER_PATH, VAE_PATH, TEXT_ENCODER_PATH
Checkpoints == {"transformer", "vae", "text_encoder"}

\* mutant: the command is compared without .lower()
DispatchCaseSensitive(av) ==
  IF Len(av) > 0
  THEN LET cmd == av[1] IN
       CASE cmd = W_test -> "test_loading"
         [] cmd = W_generate \/ cmd = W_ai -> "generate_all"
         [] cmd = W_placeholders -> "generate_placeholders"
         [] OTHER -> "unknown"
  ELSE "usage"

\* the branch of the __main__ block taken for sys.argv[1:2]
Dispatch(av) ==
  IF Len(av) > 0
  THEN LET cmd == Lower(av[1]) IN
       CASE cmd = W_test -> "test_loading"
         [] cmd = W_generate \/ cmd = W_ai -> "generate_all"
         [] cmd = W_placeholders -> "generate_placeholders"
         [] OTHER -> "unknown"
  ELSE "usage"

StandaloneMain ==
  /\ pc = "main" /\ script = StandaloneScript
  /\ LET branch == Dispatch(argv) IN
       /\ ran' = ran \cup {branch}
       /\ pc' = CASE branch = "test_loading" -> "tl_files"
                  [] branch = "generate_all" -> "sa_mkdir"
                  [] branch = "generate_placeholders" -> "ph_mkdir"
                  [] OTHER -> "exit"
       /\ out' = CASE branch = "unknown" -> out \cup {"Unknown command"}
                   [] branch = "usage" -> out \cup {"Usage"}
                   [] OTHER -> out \cup {"banner"}
  /\ UNCHANGED <<script, argv, ai, health, crash, requests, att, diskVars, loopVars, waitVars>>

\* mutant: the text encoder file is asked for as well
AllCheckpointsExist(files) == Checkpoints \subseteq files

\* test_loading: for path in [TRANSFORMER_PATH, VAE_PATH]: path.exists()
CheckedFilesExist(files) == {"transformer", "vae"} \subseteq files

\* test_loading: the loop over the two paths before the try block
TlFiles ==
  /\ pc = "tl_files"
  /\ IF CheckedFilesExist(modelFiles)
     THEN pc' = "tl_load" /\ ret' = ret /\ out' = out \cup {"Found"}
     ELSE pc' = "exit" /\ ret' = "False" /\ out' = out \cup {"[ERROR] Missing"}
  /\ UNCHANGED <<cliVars, ai, health, crash, diskVars, idx, success_count, faults, requests,
                 waitVars, att>>

\* what the two load_file calls of test_loading do: both return, or the one
\* of `at` raises `kind`
LoadOutcomes ==
  {[at |-> "none", kind |-> None]}
    \cup {[at |-> a, kind |-> k] : a \in {"transformer", "vae"}, k \in BaseExceptionKinds}

\* test_loading: the try block with the two load_file calls, and its except
TlLoad(outcome) ==
  /\ pc = "tl_load"
  /\ loaded' = loaded \cup CASE outcome.at = "none" -> {"transformer", "vae"}
                            [] outcome.at = "vae" -> {"transformer"}
                            [] OTHER -> {}
  /\ LET printed == out \cup {"Loading transformer to VRAM..."}
                        \cup (IF outcome.at = "transformer" THEN {}
                              ELSE {"Loading VAE to VRAM..."})
     IN IF outcome.at = "none"
        THEN /\ ret' = "True" /\ pc' = "exit" /\ crash' = crash
             /\ out' = printed \cup {"[SUCCESS] Models loaded!"}
        ELSE IF CatchesException(outcome.kind)
             THEN /\ ret' = "False" /\ pc' = "exit" /\ crash' = crash
                  /\ out' = printed \cup {"[FAILED]"}
             ELSE /\ ret' = ret /\ pc' = "crashed" /\ crash' = outcome.kind
                  /\ out' = printed
  /\ UNCHANGED <<cliVars, ai, health, fs, dirExists, modelFiles, idx, success_count, faults,
                 requests, waitVars, att>>

\* generate_all / generate_placeholders: OUTPUT_DIR.mkdir(parents=True, exist_ok=True)
OutputMkdir(ok) ==
  /\ pc \in {"sa_mkdir", "ph_mkdir"}
  /\ IF ok
     THEN /\ dirExists' = TRUE /\ crash' = crash
          /\ pc' = IF pc = "sa_mkdir" THEN "sa_load" ELSE "ph_loop"
     ELSE /\ dirExists' = dirExists /\ crash' = "OSError" /\ pc' = "crashed"
  /\ idx' = 1 /\ success_count' = 0
  /\ UNCHANGED <<cliVars, ai, health, out, fs, modelFiles, loaded, faults, ret, requests,
                 waitVars, att>>

\* generate_all: the load_file calls before the loop; none is inside a try,
\* and the text encoder is loaded only if its file exists
SaLoad(ok) ==
  /\ pc = "sa_load"
  /\ LET wanted == {"transformer", "vae"} \cup (modelFiles \cap {"text_encoder"}) IN
     IF ok /\ wanted \subseteq modelFiles
     THEN loaded' = loaded \cup wanted /\ pc' = "sa_loop" /\ crash' = crash
     ELSE /\ loaded' = IF "transformer" \in modelFiles /\ ~ok
                       THEN loaded \cup {"transformer"} ELSE loaded
          /\ pc' = "crashed"
          /\ crash' = IF wanted \subseteq modelFiles THEN "RuntimeError" ELSE "OSError"
  /\ UNCHANGED <<cliVars, ai, health, out, fs, dirExists, modelFiles, loopVars, requests,
                 waitVars, att>>

AssetOutcomes == {"ok", "RuntimeError", "OSError", "KeyboardInterrupt"}

\* generate_all: one iteration of the loop (generate_with_ai, image.save) or
\* the summary after the last one
SaAsset(outcome) ==
  /\ pc = "sa_loop"
  /\ outcome = "ok" \/ CanFault
  /\ IF idx > Len(ASSETS)
     THEN /\ outcome = "ok"
          /\ pc' = "exit" /\ out' = out \cup {"Done"}
          /\ UNCHANGED <<fs, idx, success_count, faults, crash>>
     ELSE IF outcome = "ok"
          THEN /\ fs' = [fs EXCEPT ![ASSETS[idx].filename] = "image"]
               /\ success_count' = success_count + 1
               /\ idx' = idx + 1
               /\ UNCHANGED <<pc, out, faults, crash>>
          ELSE IF CatchesException(outcome)
               THEN /\ faults' = faults + 1 /\ idx' = idx + 1
                    /\ UNCHANGED <<pc, out, fs, success_count, crash>>
               ELSE /\ pc' = "crashed" /\ crash' = outcome
                    /\ UNCHANGED <<fs, idx, success_count, faults, out>>
  /\ att' = IF idx > Len(ASSETS) THEN att ELSE AttemptOn(ASSETS, idx)
  /\ UNCHANGED <<cliVars, ai, health, dirExists, modelFiles, loaded, ret, requests, waitVars>>

\* generate_placeholders: one iteration of the loop (create_background for
\* bg_ names, create_icon otherwise, img.save) or the summary after the last
PhAsset(outcome) ==
  /\ pc = "ph_loop"
  /\ outcome = "ok" \/ CanFault
  /\ IF idx > Len(ASSETS)
     THEN /\ outcome = "ok"
          /\ pc' = "exit" /\ out' = out \cup {"Done"}
          /\ UNCHANGED <<fs, idx, success_count, faults, crash>>
     ELSE IF outcome = "ok"
          THEN /\ fs' = [fs EXCEPT ![ASSETS[idx].filename] =
                           IF StartsWith(ASSETS[idx].name, "bg")
                           THEN "background" ELSE "icon"]
               /\ success_count' = success_count + 1
               /\ idx' = idx + 1
               /\ UNCHANGED <<pc, out, faults, crash>>
          ELSE IF CatchesException(outcome)
               THEN /\ faults' = faults + 1 /\ idx' = idx + 1
                    /\ UNCHANGED <<pc, out, fs, success_count, crash>>
               ELSE /\ pc' = "crashed" /\ crash' = outcome
                    /\ UNCHANGED <<fs, idx, success_count, faults, out>>
  /\ att' = IF idx > Len(ASSETS) THEN att ELSE AttemptOn(ASSETS, idx)
  /\ UNCHANGED <<cliVars, ai, health, dirExists, modelFiles, loaded, ret, requests, waitVars>>

\* the tensor code called on its own
DecodeAlone == "latent_to_image"
SamplingAlone == "generate_with_ai"

\* nothing of the inference code has run
NoTensors == [call |-> 0]

\* the variables of the scripts' own state, which the tensor code leaves alone
scriptVars == <<script, argv, out, ran, crash, health, fs, dirExists, modelFiles,
                loaded, idx, success_count, faults, ret, requests, prompt_id,
                images, elapsed, timeout, att, wfc>>

\* ------------------------------------------------------- tensors, VAE decode
(***************************************************************************)
(* A tensor [1, C, h, w] is a sequence of C channels, each a sequence of h  *)
(* rows of w numbers.  Numbers are exact fractions: a latent entry n stands *)
(* for n / lden, lden being carried beside the tensor; the rounding of the  *)
(* bfloat16 / float32 arithmetic is not modelled.                           *)
(***************************************************************************)
LATENT_CHANNELS == 16
VAE_SCALE_FACTOR == 8
Upscale == 8                \* F.interpolate(z, scale_factor=8, ...)
PixelMax == 255             \* (img * 255).astype(np.uint8)
ConvPadding == 1            \* F.conv2d(..., padding=1)
RgbChannels == 3            \* img[:, :3]

\* 1 / 0.13025 as a fraction
InvScaling == <<4000, 521>>

RECURSIVE GCD(_, _)
GCD(a, b) == IF b = 0 THEN a ELSE GCD(b, a % b)

RECURSIVE SeqSum(_)
SeqSum(q) == IF q = <<>> THEN 0 ELSE q[1] + SeqSum(Tail(q))

\* a sequence given by a rule, with its entries worked out once
Entries(f) == f \o <<>>

Min(a, b) == IF a < b THEN a ELSE b
Max(a, b) == IF a > b THEN a ELSE b

Channels(t) == Len(t)
Height(t) == Len(t[1])
Width(t) == Len(t[1][1])

\* bilinear sampling, align_corners=False: output index o (from 1) of an axis
\* of n entries reads source position (o - 0.5) / Upscale - 0.5, not below 0;
\* the position is kept in units of 1 / (2 * Upscale)
AxisUnits == 2 * Upscale
SourcePos(o) == Max(0, 2 * (o - 1) + 1 - Upscale)
SourceLo(o) == (SourcePos(o) \div AxisUnits) + 1
SourceHi(o, n) == Min(SourceLo(o) + 1, n)
SourceFrac(o) == SourcePos(o) % AxisUnits

\* F.interpolate(z, scale_factor=8, mode='bilinear') at (Y, X) of one
\* channel, times AxisUnits^2
Upsampled(ch, Y, X) ==
  LET h == Len(ch)
      w == Len(ch[1])
      y0 == SourceLo(Y)  y1 == SourceHi(Y, h)  fy == SourceFrac(Y)
      x0 == SourceLo(X)  x1 == SourceHi(X, w)  fx == SourceFrac(X)
  IN (AxisUnits - fy) * (AxisUnits - fx) * ch[y0][x0]
       + (AxisUnits - fy) * fx * ch[y0][x1]
       + fy * (AxisUnits - fx) * ch[y1][x0]
       + fy * fx * ch[y1][x1]

\* an upsampled latent entry u (a sum of AxisUnits^2 weighted latent entries)
\* stands for u * InvScaling / (AxisUnits^2 * lden) after `latent / 0.13025`;
\* numerator factor and denominator of that, in lowest terms of the constants
ScaleCommon == GCD(InvScaling[1], AxisUnits * AxisUnits * InvScaling[2])
ScaledNum(u) == (InvScaling[1] \div ScaleCommon) * u
ScaledDen(lden) == ((AxisUnits * AxisUnits * InvScaling[2]) \div ScaleCommon) * lden

\* mutant: the values are not clamped
NoClamp(m, d) == m

\* img.clamp(0, 1) of m / d
ClampUnit(m, d) == IF m < 0 THEN 0 ELSE IF m > d THEN d ELSE m

\* decoder.conv_out.weight of the kinds of kernels tried, as the nonzero
\* entries <<i, ky, kx, weight[o][i][ky][kx]>> of output channel o (3 x 3
\* kernels, ky and kx from 1)
KernelKinds == {"centre", "shift", "negative"}
Kernel(kind, o) ==
  CASE kind = "centre" -> <<<<o, 2, 2, 1>>>>
    [] kind = "shift" -> <<<<o, 1, 2, 2>>, <<(o % RgbChannels) + 1, 2, 3, -1>>>>
    [] OTHER -> <<<<o, 2, 2, -1>>>>

\* F.conv2d(img[:, :inCh], weight, bias, padding=1) at (o, Y, X), on the
\* upsampled entries: the 3 x 3 window around (Y, X), zero outside the image
ConvOut(latent, weight, o, Y, X) ==
  LET H == Upscale * Height(latent)
      W == Upscale * Width(latent)
      taps == Kernel(weight.kind, o)
      term(j) ==
        LET yy == Y + taps[j][2] - 1 - ConvPadding
            xx == X + taps[j][3] - 1 - ConvPadding
        IN IF yy < 1 \/ yy > H \/ xx < 1 \/ xx > W THEN 0
           ELSE taps[j][4] * Upsampled(latent[taps[j][1]], yy, xx)
  IN SeqSum([j \in 1..Len(taps) |-> term(j)])

NoWeight == [outCh |-> 0, inCh |-> 0, kind |-> Missing]
NoBias == [present |-> FALSE, val |-> 0]
Bias(v) == [present |-> TRUE, val |-> v]

\* decode_vae_simple(latent, vae_sd): the image [1, channels, height, width]
\* with entries px / den, or the exception raised
DecodeVaeSimple(latent, lden, vae_sd) ==
  LET H == Upscale * Height(latent)
      W == Upscale * Width(latent)
      one == ScaledDen(lden)
      weight == vae_sd.conv_out_weight
      image(chs, value(_, _, _)) ==
        [status |-> "ok", channels |-> chs, height |-> H, width |-> W,
         den |-> 2 * one,
         px |-> Entries([c \in 1..chs |-> Entries([Y \in 1..H |-> Entries([X \in 1..W |->
                   ClampUnit(value(c, Y, X) + one, 2 * one)])])])]
      raised(kind) ==
        [status |-> kind, channels |-> 0, height |-> 0, width |-> 0,
         den |-> 1, px |-> <<>>]
      convolved(c, Y, X) ==
        ScaledNum(ConvOut(latent, weight, c, Y, X)) + vae_sd.conv_out_bias.val * one
      first(c, Y, X) == ScaledNum(Upsampled(latent[c], Y, X))
  IN IF weight # NoWeight
     THEN IF ~vae_sd.conv_out_bias.present THEN raised("KeyError")
          ELSE IF weight.inCh > Channels(latent) THEN raised("RuntimeError")
          ELSE image(weight.outCh, convolved)
     ELSE image(Min(RgbChannels, Channels(latent)), first)

\* astype(np.uint8) of an integer
ToUint8(v) == v % (PixelMax + 1)

\* latent_to_image: img[0].permute(1, 2, 0) * 255 as uint8, [height][width][channel]
ToPixels(img) ==
  Entries([Y \in 1..img.height |-> Entries([X \in 1..img.width |->
     Entries([c \in 1..img.channels |->
        ToUint8((PixelMax * img.px[c][Y][X]) \div img.den)])])])

\* latent entries tried, in twentieths
NoiseVals == <<-4, -1, 0, 1, 2, 8>>
NoiseDen == 20

\* the latents decode_vae_simple is tried with on its own
LatentPattern(C, h, w, k) ==
  [c \in 1..C |-> [y \in 1..h |-> [x \in 1..w |->
     NoiseVals[((k + 5 * c + 3 * y + 4 * x) % Len(NoiseVals)) + 1]]]]

\* the VAE state dicts tried: with or without decoder.conv_out.weight /
\* .bias, and `other` standing for every other entry
VaeSds(inChs) ==
  {[conv_out_weight |-> NoWeight, conv_out_bias |-> NoBias, other |-> o] : o \in {0, 1}}
    \cup {[conv_out_weight |-> [outCh |-> RgbChannels, inCh |-> i, kind |-> k],
           conv_out_bias |-> b, other |-> 0] :
            i \in inChs, k \in KernelKinds, b \in {NoBias, Bias(0), Bias(1)}}

\* with torch.no_grad(): img = decode_vae_simple(latent, vae_sd)
VaeDecode ==
  /\ pc = "vae_decode"
  /\ LET img == DecodeVaeSimple(ai.latent, ai.lden, ai.vae_sd) IN
       /\ ai' = [ai EXCEPT !.decoded = img]
       /\ pc' = IF img.status = "ok" THEN "vae_to_image" ELSE "vae_raised"
  /\ UNCHANGED scriptVars

\* img = (img * 255).astype(np.uint8)
VaeToImage ==
  /\ pc = "vae_to_image"
  /\ ai' = [ai EXCEPT !.pixels = ToPixels(ai.decoded)]
  /\ pc' = "vae_done"
  /\ UNCHANGED scriptVars

\* ------------------------------------------------------- generate_with_ai
(***************************************************************************)
(* Numbers of the sampling code are fixed-point: an integer n stands for    *)
(* n / Unit, products and quotients are rounded down to the unit (the       *)
(* model's stand-in for the rounding of bfloat16).  The sigma schedule is   *)
(* kept as exact fractions <<numerator, denominator>>.                      *)
(***************************************************************************)
Unit == 50 * NoiseDen
FxMul(a, b) == (a * b) \div Unit
Clamp01(a) == IF a < 0 THEN 0 ELSE IF a > Unit THEN Unit ELSE a

\* integers wider than 31 bits are sequences of 16-bit limbs, highest first
Limb == 65536
NoSeed == <<>>

\* hash(prompt): 64 bits, keyed per process (PYTHONHASHSEED); some function
\* of the key and of the characters
RECURSIVE HashLimb(_, _, _)
HashLimb(prompt, key, l) ==
  IF prompt = <<>> THEN (key * (l + 3)) % Limb
  ELSE LET c == CHOOSE i \in 1..Len(LowerCase) : LowerCase[i] = prompt[Len(prompt)]
       IN (31 * HashLimb(SubSeq(prompt, 1, Len(prompt) - 1), key, l) + c * (l + 1)) % Limb
Hash(prompt, key) == [l \in 1..4 |-> HashLimb(prompt, key, l)]

\* n % 2**32 of a 64-bit two's complement n: its two low limbs
Mod2_32(n) == SubSeq(n, Len(n) - 1, Len(n))

\* torch.manual_seed(s): the generator restarts from s
ManualSeed(s) == [seed |-> s, drawn |-> 0]

\* mutant: the seed argument is ignored
IgnoreSeed(seed, rng) == rng

\* if seed is not None: torch.manual_seed(seed)
SeedIfGiven(seed, rng) == IF seed # NoSeed THEN ManualSeed(seed) ELSE rng

\* the k-th normal deviate after seeding, one of NoiseVals (in 1 / NoiseDen)
Deviate(rng, k) ==
  NoiseVals[((3 * rng.seed[1] + 7 * rng.seed[2] + 5 * (rng.drawn + k)
              + ((rng.drawn + k) \div Len(NoiseVals))) % Len(NoiseVals)) + 1]

\* torch.randn(1, C, h, w) in units of 1 / Unit, and the generator after it
Randn(rng, C, h, w) ==
  Entries([c \in 1..C |-> Entries([y \in 1..h |-> Entries([x \in 1..w |->
     (Unit \div NoiseDen) * Deviate(rng, ((c - 1) * h + (y - 1)) * w + x)])])])
Advance(rng, n) == [rng EXCEPT !.drawn = @ + n]

\* context = torch.randn_like(torch.zeros(1, 77, 3584)) * 0.1: of its
\* ContextRows * ContextDim entries the first ContextKept are kept
ContextRows == 77
ContextDim == 3584
RandnContext(rng) ==
  Entries([k \in 1..ContextKept |-> ((Unit \div NoiseDen) * Deviate(rng, k)) \div 10])

\* mutant: the end point is left out of the schedule
LinspaceOpen(start, end, n) ==
  [i \in 1..n |-> <<start * n + (i - 1) * (end - start), n>>]

\* torch.linspace(start, end, n) as fractions
Linspace(start, end, n) ==
  IF n = 1 THEN << <<start, 1>> >>
  ELSE Entries([i \in 1..n |-> <<start * (n - 1) + (i - 1) * (end - start), n - 1>>])

\* ---- layers
RECURSIVE Newton(_, _)
Newton(n, r) ==
  LET r2 == (r + (n \div r)) \div 2 IN IF r2 >= r THEN r ELSE Newton(n, r2)
\* the integer square root
ISqrt(n) == IF n = 0 THEN 0 ELSE Newton(n, n)

\* F.layer_norm(x, x.shape[-1:]) of one token, eps = 1e-5
LayerNormEps == (Unit * Unit) \div 100000
LayerNorm(x) ==
  LET d == Len(x)
      mean == SeqSum(x) \div d
      var == SeqSum([j \in 1..d |-> (x[j] - mean) * (x[j] - mean)]) \div d
      std == ISqrt(var + LayerNormEps)
  IN Entries([j \in 1..d |-> ((x[j] - mean) * Unit) \div std])

\* F.silu and F.gelu(approximate='tanh'), by their piecewise-linear gates
Silu(a) == FxMul(a, Clamp01((a \div 6) + (Unit \div 2)))
Gelu(a) == FxMul(a, Clamp01((a \div 4) + (Unit \div 2)))

\* sin of t radians, t in 1 / Unit, by the triangle wave through its zeros
\* and extrema
TwoPi == 6283
Sin(t) ==
  LET p == t % TwoPi
      q == (TwoPi + 2) \div 4
  IN IF p < q THEN (p * Unit) \div q
     ELSE IF p < TwoPi - q THEN (((TwoPi \div 2) - p) * Unit) \div q
     ELSE ((p - TwoPi) * Unit) \div q

\* a weight matrix [outDim, inDim] with W[j][((j - 1) % inDim) + 1] = gain and
\* zeros elsewhere, and its bias vector (all entries val) or None
NoLinear == [outDim |-> 0, inDim |-> 0, gain |-> 0, bias |-> NoBias]
LinearLayer(o, i, g, b) == [outDim |-> o, inDim |-> i, gain |-> g, bias |-> b]
\* F.linear(x, w, b) of one token
Linear(x, l) ==
  Entries([j \in 1..l.outDim |-> FxMul(l.gain, x[((j - 1) % l.inDim) + 1]) + l.bias.val])

\* a weight matrix [n, E] reading only the first entry of its input:
\* W[k][1] = gains[k], and its bias; F.linear of a vector whose first entry
\* is a gives the n numbers gains[k] * a + biases[k]
NoModulation == [gains |-> <<>>, biases |-> <<>>]
Modulate(a, m) ==
  Entries([k \in 1..Len(m.gains) |-> FxMul(m.gains[k], a) + m.biases[k]])

\* h * (1 + scale) + shift on one token
ScaleShift(h, scale, shift) ==
  Entries([j \in 1..Len(h) |-> FxMul(h[j], Unit + scale) + shift])

\* apply_transformer_block on the tokens x; `context` is a parameter no line
\* of the block reads.  timestep_emb is the first entry of the embedding.
ApplyTransformerBlock(x, context, timestep_emb, block_idx, transformer_sd) ==
  IF block_idx \notin DOMAIN transformer_sd.blocks THEN x
  ELSE
    LET w == transformer_sd.blocks[block_idx]
        mod == Modulate(Silu(timestep_emb), w.img_mod)
        shift == mod[1]  scale == mod[2]  gate == mod[3]
        shift2 == mod[4]  scale2 == mod[5]  gate2 == mod[6]
        attended(t) ==
          LET h == ScaleShift(LayerNorm(t), scale, shift)
          IN Entries([j \in 1..Len(t) |-> t[j] + FxMul(gate, h[j])])
        fed(t) ==
          LET h == ScaleShift(LayerNorm(t), scale2, shift2)
              a == Linear(h, w.mlp1)
              m == IF w.mlp1 # NoLinear
                   THEN Linear(Entries([j \in 1..Len(a) |-> Gelu(a[j])]), w.mlp2)
                   ELSE h
          IN Entries([j \in 1..Len(t) |-> t[j] + FxMul(gate2, m[j])])
    IN Entries([p \in 1..Len(x) |-> fed(attended(x[p]))])

\* the blocks block_idx, block_idx + 1, ... below n, in order
RECURSIVE ApplyBlocks(_, _, _, _, _, _)
ApplyBlocks(x, context, temb, block_idx, n, transformer_sd) ==
  IF block_idx >= n THEN x
  ELSE ApplyBlocks(ApplyTransformerBlock(x, context, temb, block_idx, transformer_sd),
                   context, temb, block_idx + 1, n, transformer_sd)

Patch == 2
BlocksCap == 10
NumBlocks == 60
TimestepScale == 1000

\* F.pad(latent, (0, pad_w, 0, pad_h)): zeros to the right and below
Pad(latent, pad_h, pad_w) ==
  Entries([c \in 1..Channels(latent) |-> Entries([y \in 1..(Height(latent) + pad_h) |->
     Entries([x \in 1..(Width(latent) + pad_w) |->
        IF y <= Height(latent) /\ x <= Width(latent) THEN latent[c][y][x] ELSE 0])])])

\* [C, H, W] -> [(H/2) * (W/2), C * 4]: entry (c, dy, dx) of token (py, px)
Patchify(latent) ==
  LET tw == Width(latent) \div Patch IN
  Entries([p \in 1..((Height(latent) \div Patch) * tw) |->
     Entries([e \in 1..(Channels(latent) * Patch * Patch) |->
        latent[((e - 1) \div (Patch * Patch)) + 1]
              [Patch * ((p - 1) \div tw) + (((e - 1) \div Patch) % Patch) + 1]
              [Patch * ((p - 1) % tw) + ((e - 1) % Patch) + 1]])])

\* [(H/2) * (W/2), C * 4] -> [C, H, W]
Unpatchify(x, ch, h, w) ==
  Entries([c \in 1..ch |-> Entries([y \in 1..h |-> Entries([xx \in 1..w |->
     x[((y - 1) \div Patch) * (w \div Patch) + ((xx - 1) \div Patch) + 1]
      [((c - 1) * Patch + ((y - 1) % Patch)) * Patch + ((xx - 1) % Patch) + 1]])])])

\* x[:, :, :orig_h, :orig_w]
Crop(t, orig_h, orig_w) ==
  Entries([c \in 1..Channels(t) |-> Entries([y \in 1..orig_h |->
     Entries([x \in 1..orig_w |-> t[c][y][x]])])])

\* the length of a token after a layer that may be absent; -1 once a layer
\* was given tokens of another length than its weight takes
AfterLinear(d, l) == IF l = NoLinear THEN d ELSE IF d = l.inDim THEN l.outDim ELSE -1

\* run_transformer(latent, timestep, context, transformer_sd, num_blocks):
\* the velocity, or the exception of a shape that does not fit.  timestep is
\* a fraction.
RunTransformer(latent, timestep, context, transformer_sd, num_blocks) ==
  LET ch == Channels(latent)
      orig_h == Height(latent)
      orig_w == Width(latent)
      pad_h == (Patch - (orig_h % Patch)) % Patch
      pad_w == (Patch - (orig_w % Patch)) % Patch
      padded == IF pad_h > 0 \/ pad_w > 0 THEN Pad(latent, pad_h, pad_w) ELSE latent
      h == Height(padded)
      w == Width(padded)
      tokens == Patchify(padded)
      blocks_to_run == Min(num_blocks, BlocksCap)
      d1 == AfterLinear(ch * Patch * Patch, transformer_sd.img_in)
      mlpFits == \A b \in DOMAIN transformer_sd.blocks :
                    (b < blocks_to_run /\ transformer_sd.blocks[b].mlp1 # NoLinear) =>
                       AfterLinear(AfterLinear(d1, transformer_sd.blocks[b].mlp1),
                                   transformer_sd.blocks[b].mlp2) = d1
      d2 == AfterLinear(d1, transformer_sd.proj_out)
      x1 == IF transformer_sd.img_in # NoLinear
            THEN Entries([p \in 1..Len(tokens) |-> Linear(tokens[p], transformer_sd.img_in)])
            ELSE tokens
      emb == Sin((timestep[1] * Unit) \div timestep[2])
      temb == IF transformer_sd.t_emb # NoModulation
              THEN FxMul(transformer_sd.t_emb.gains[2],
                         Silu(FxMul(transformer_sd.t_emb.gains[1], emb)
                              + transformer_sd.t_emb.biases[1]))
                     + transformer_sd.t_emb.biases[2]
              ELSE emb
      x2 == ApplyBlocks(x1, context, temb, 0, blocks_to_run, transformer_sd)
      x3 == IF transformer_sd.norm_out # NoModulation
            THEN LET mod == Modulate(Silu(temb), transformer_sd.norm_out)
                 IN Entries([p \in 1..Len(x2) |->
                              ScaleShift(LayerNorm(x2[p]), mod[1], mod[2])])
            ELSE x2
      x4 == IF transformer_sd.proj_out # NoLinear
            THEN Entries([p \in 1..Len(x3) |-> Linear(x3[p], transformer_sd.proj_out)])
            ELSE x3
      full == Unpatchify(x4, ch, h, w)
  IN IF d1 < 0 \/ ~mlpFits \/ d2 # ch * Patch * Patch
     THEN [status |-> "RuntimeError", v |-> <<>>]
     ELSE [status |-> "ok",
           v |-> IF pad_h > 0 \/ pad_w > 0 THEN Crop(full, orig_h, orig_w) ELSE full]

\* ---- the state dicts and arguments tried
Block(mod, m1, m2) == [img_mod |-> mod, mlp1 |-> m1, mlp2 |-> m2]
TokenDim == LATENT_CHANNELS * Patch * Patch

\* no key of the transformer is present
EmptySd ==
  [img_in |-> NoLinear, t_emb |-> NoModulation, blocks |-> <<>>,
   norm_out |-> NoModulation, proj_out |-> NoLinear]

\* input and output projections to and from 8-entry tokens, the timestep
\* MLP, blocks 0, 9 and 10 (block 9 without MLP), the final modulation
FullSd ==
  [img_in |-> LinearLayer(8, TokenDim, 800, Bias(-20)),
   t_emb |-> [gains |-> <<1500, 700>>, biases |-> <<100, -50>>],
   blocks |-> [b \in {0, 9, 10} |->
     CASE b = 0 -> Block([gains |-> <<100, 200, -300, 0, 100, 200>>,
                          biases |-> <<0, 50, 100, 20, 0, 150>>],
                         LinearLayer(4, 8, 500, Bias(10)),
                         LinearLayer(8, 4, -700, NoBias))
       [] b = 9 -> Block([gains |-> <<0, -100, 200, 50, 0, 300>>,
                          biases |-> <<30, 0, -100, 0, 0, 0>>], NoLinear, NoLinear)
       [] OTHER -> Block([gains |-> <<900, 900, 900, 900, 900, 900>>,
                          biases |-> <<900, 900, 900, 900, 900, 900>>], NoLinear, NoLinear)],
   norm_out |-> [gains |-> <<100, -50>>, biases |-> <<-200, 30>>],
   proj_out |-> LinearLayer(TokenDim, 8, 1200, NoBias)]

\* an input projection with nothing to project back
NoProjOutSd == [EmptySd EXCEPT !.img_in = LinearLayer(8, TokenDim, 800, NoBias)]

\* VAE state dicts: without conv_out, with a conv_out over three channels,
\* and with the conv_out of SimpleVAEDecoder, nn.Conv2d(128, 3, 3, padding=1)
DecoderChannels == 128
FallbackVae == [conv_out_weight |-> NoWeight, conv_out_bias |-> NoBias, other |-> 0]
ConvVae(inCh) ==
  [conv_out_weight |-> [outCh |-> RgbChannels, inCh |-> inCh, kind |-> "shift"],
   conv_out_bias |-> Bias(0), other |-> 0]

\* <<width, height, transformer_sd, vae_sd>> of the calls tried
Cases ==
  {<<8, 8, EmptySd, FallbackVae>>, <<20, 12, EmptySd, FallbackVae>>,
   <<8, 8, EmptySd, ConvVae(RgbChannels)>>, <<8, 8, EmptySd, ConvVae(DecoderChannels)>>,
   <<8, 8, FullSd, FallbackVae>>, <<20, 12, FullSd, FallbackVae>>,
   <<8, 8, NoProjOutSd, FallbackVae>>}
Seeds == {NoSeed, <<0, 42>>}
Prompts == {<<"s", "u", "n">>, <<"m", "o", "o", "n">>}
TextEncoders == {"none", "qwen"}
\* the key of hash() in this process
HashKey == 1
\* the generator as the process starts
InitialRng == ManualSeed(<<15664, 61852>>)

\* ---- generate_with_ai
\* l.564-593: seed, initial noise, sigma schedule, context, seed again
AiPrepare ==
  /\ pc = "ai_call"
  /\ LET a == ai.args[ai.call]
         rng1 == SeedIfGiven(a.seed, ai.rng)
         latent_h == a.height \div VAE_SCALE_FACTOR
         latent_w == a.width \div VAE_SCALE_FACTOR
         latent == Randn(rng1, LATENT_CHANNELS, latent_h, latent_w)
         rng2 == Advance(rng1, LATENT_CHANNELS * latent_h * latent_w)
         rng3 == ManualSeed(Mod2_32(Hash(a.prompt, ai.key)))
         context == RandnContext(rng3)
         rng4 == Advance(rng3, ContextRows * ContextDim)
     IN ai' = [ai EXCEPT !.rng = SeedIfGiven(a.seed, rng4),
                         !.latent = latent,
                         !.sigmas = Linspace(1, 0, a.steps + 1),
                         !.context = context,
                         !.i = 0,
                         !.latent0 = latent,
                         !.contexts = Append(@, context),
                         !.evals = <<>>, !.printed = <<>>, !.decodes = 0,
                         !.prev = <<>>, !.v = <<>>]
  /\ pc' = "ai_loop"
  /\ UNCHANGED scriptVars

\* l.597-613: one iteration of the sampling loop
AiStep ==
  /\ pc = "ai_loop"
  /\ ai.i < Len(ai.sigmas) - 1
  /\ LET a == ai.args[ai.call]
         sigma == ai.sigmas[ai.i + 1]
         sigma_next == ai.sigmas[ai.i + 2]
         t == <<sigma[1] * TimestepScale, sigma[2]>>
         r == RunTransformer(ai.latent, t, ai.context, a.transformer_sd, NumBlocks)
         dt == <<sigma[1] * sigma_next[2] - sigma_next[1] * sigma[2],
                 sigma[2] * sigma_next[2]>>
     IN IF r.status # "ok"
        THEN /\ ai' = [ai EXCEPT !.raised = r.status]
             /\ pc' = "ai_raised"
        ELSE /\ ai' = [ai EXCEPT
                  !.latent = Entries([c \in 1..Channels(@) |-> Entries([y \in 1..Height(@) |->
                               Entries([x \in 1..Width(@) |->
                                  @[c][y][x] - ((r.v[c][y][x] * dt[1]) \div dt[2])])])]),
                  !.i = @ + 1,
                  !.printed = IF (ai.i + 1) % 5 = 0 THEN Append(@, ai.i + 1) ELSE @,
                  !.evals = Append(@, [sigma |-> sigma, t |-> t, dt |-> dt]),
                  !.prev = ai.latent, !.v = r.v]
             /\ pc' = "ai_loop"
  /\ UNCHANGED scriptVars

\* l.616-619: image = latent_to_image(latent, vae_sd); return image
AiDecode ==
  /\ pc = "ai_loop"
  /\ ai.i >= Len(ai.sigmas) - 1
  /\ LET a == ai.args[ai.call]
         img == DecodeVaeSimple(ai.latent, Unit, a.vae_sd)
     IN IF img.status # "ok"
        THEN /\ ai' = [ai EXCEPT !.raised = img.status, !.decodes = @ + 1]
             /\ pc' = "ai_raised"
        ELSE /\ ai' = [ai EXCEPT !.images = Append(@, ToPixels(img)), !.decodes = @ + 1]
             /\ pc' = "ai_returned"
  /\ UNCHANGED scriptVars

\* the caller calls generate_with_ai once more, with its next arguments
AiAgain ==
  /\ pc = "ai_returned"
  /\ ai.call < Len(ai.args)
  /\ ai' = [ai EXCEPT !.call = @ + 1]
  /\ pc' = "ai_call"
  /\ UNCHANGED scriptVars

\* ---------------------------------------------------------- specifications
InitCommon ==
  /\ out = {} /\ ran = {} /\ crash = None /\ health = None
  /\ fs = [f \in Filenames |-> Missing]
  /\ dirExists = FALSE
  /\ loaded = {}
  /\ idx = 0 /\ success_count = 0 /\ faults = 0 /\ ret = None
  /\ requests = {}
  /\ images = NoneValue /\ elapsed = 0
  /\ att = NoAttempt /\ wfc = NoWait

\* one of the two scripts is started with at most one argument
Init ==
  /\ InitCommon
  /\ ai = NoTensors
  /\ script \in Scripts
  /\ argv \in Argvs
  /\ pc = "main"
  /\ modelFiles \in IF script = StandaloneScript /\ argv # <<>>
                        /\ Lower(argv[1]) \in {W_test, W_generate, W_ai}
                     THEN SUBSET Checkpoints ELSE {Checkpoints}
  /\ prompt_id = None /\ timeout = DefaultTimeout

Next ==
  \/ ComfyMain
  \/ \E resp \in HealthResponses : CheckComfyuiRunning(resp)
  \/ \E ok \in BOOLEAN : GaMkdir(ok)
  \/ GaLoop
  \/ \E resp \in QueueResponses : GenQueue(resp)
  \/ WfcStart
  \/ WfcCheck
  \/ \E lat \in SlowLatencies, h \in ScriptHistories : WfcPoll(lat, h)
  \/ WfcSleep
  \/ GenImages
  \/ \E resp \in ViewResponses : GenDownload(resp)
  \/ \E outcome \in SaveOutcomes : GenSave(outcome)
  \/ GenRet
  \/ StandaloneMain
  \/ TlFiles
  \/ \E outcome \in LoadOutcomes : TlLoad(outcome)
  \/ \E ok \in BOOLEAN : OutputMkdir(ok)
  \/ \E ok \in BOOLEAN : SaLoad(ok)
  \/ \E outcome \in AssetOutcomes : SaAsset(outcome)
  \/ \E outcome \in AssetOutcomes : PhAsset(outcome)

Spec == Init /\ [][Next]_vars

\* wait_for_completion(prompt_id, timeout) called on its own
InitWait ==
  /\ InitCommon
  /\ ai = NoTensors
  /\ script = WaitAlone
  /\ argv = <<>>
  /\ pc = "wfc_start"
  /\ modelFiles = {}
  /\ prompt_id \in {"p1", None}
  /\ timeout \in 0..MaxTimeout

NextWait ==
  \/ WfcStart
  \/ WfcCheck
  \/ \E lat \in FastLatencies, h \in HistoryResponses : WfcPoll(lat, h)
  \/ WfcSleep

SpecWait == InitWait /\ [][NextWait]_vars

\* latent_to_image(latent, vae_sd) called on its own
InitVae ==
  /\ InitCommon
  /\ script = DecodeAlone
  /\ argv = <<>>
  /\ pc = "vae_decode"
  /\ modelFiles = {}
  /\ prompt_id = None /\ timeout = DefaultTimeout
  /\ \E C \in RgbChannels..MaxChannels, h \in 1..MaxSide, w \in 1..MaxSide,
        k \in 0..MaxPattern, sd \in VaeSds({RgbChannels, MaxChannels + 1}) :
       ai = [call |-> 0, latent |-> LatentPattern(C, h, w, k), lden |-> NoiseDen,
             vae_sd |-> sd, decoded |-> <<>>, pixels |-> <<>>]

NextVae == VaeDecode \/ VaeToImage

SpecVae == InitVae /\ [][NextVae]_vars

\* generate_with_ai called twice in one process, the second time with another
\* prompt or with another text encoder, everything else as before
InitAI ==
  /\ InitCommon
  /\ script = SamplingAlone
  /\ argv = <<>>
  /\ pc = "ai_call"
  /\ modelFiles = {}
  /\ prompt_id = None /\ timeout = DefaultTimeout
  /\ \E steps \in 0..MaxSteps, seed \in Seeds, w \in Cases,
        p2 \in Prompts, te2 \in TextEncoders :
       /\ (p2 # <<"s", "u", "n">>) # (te2 # "none")
       /\ LET first == [prompt |-> <<"s", "u", "n">>, width |-> w[1], height |-> w[2],
                        transformer_sd |-> w[3], vae_sd |-> w[4],
                        text_encoder_sd |-> "none", steps |-> steps, seed |-> seed]
          IN ai = [call |-> 1,
                   args |-> <<first, [first EXCEPT !.prompt = p2, !.text_encoder_sd = te2]>>,
                   key |-> HashKey, rng |-> InitialRng,
                   latent |-> <<>>, sigmas |-> <<>>, context |-> <<>>, i |-> 0,
                   latent0 |-> <<>>, contexts |-> <<>>, evals |-> <<>>,
                   printed |-> <<>>, decodes |-> 0, prev |-> <<>>, v |-> <<>>,
                   images |-> <<>>, raised |-> None]

NextAI == AiPrepare \/ AiStep \/ AiDecode \/ AiAgain

SpecAI == InitAI /\ [][NextAI]_vars

\* ------------------------------------------------------------------ claims
\* position of the asset whose attempt is under way or just ended
InAttempt == pc \in {"gen_queue", "wfc_start", "wfc_check", "wfc_poll", "wfc_sleep",
                     "gen_images", "gen_download", "gen_save", "gen_ret"}

\* C1: generate_asset_comfyui returns True exactly when the prompt was
\* queued, a history poll showed its images, the first image was downloaded
\* and its bytes were written to OUTPUT_DIR/<filename of the asset>; in every
\* other outcome it returns False; and an exception that leaves the attempt
\* is never an Exception (only a BaseException such as KeyboardInterrupt).
C1_AttemptReturnsTrueIffWritten ==
  /\ pc = "gen_ret" =>
       /\ ret \in {"True", "False"}
       /\ ret = "True" <=>
            /\ att.queued /\ wfc.shown /\ att.downloaded /\ att.written
            /\ Len(wfc.first.items) > 0
            /\ fs[ASSETS_comfyui[idx].filename] = wfc.first.items[1].filename
  /\ (pc = "crashed" /\ att.asset # 0) => crash \notin ExceptionKinds

\* C1 witness: an attempt returned True after a poll that showed nothing yet
C1_Witness ==
  pc = "gen_ret" /\ ret = "True" /\ wfc.polls > 1

\* C1 (failure side): an attempt returned False although the image had been
\* downloaded, because writing it failed
C1_WitnessFailedWrite ==
  pc = "gen_ret" /\ ret = "False" /\ att.downloaded

\* C2: wait_for_completion returns the 'images' list of the first node that
\* has one, from the first poll whose history has the prompt with such a
\* node; it returns None exactly when no poll showed such a node, and then
\* only once elapsed >= timeout; polls are made only while elapsed < timeout;
\* a poll that shows no such node does not end the wait.
C2_WaitReturnsFirstImages ==
  /\ pc = "wfc_poll" => elapsed < timeout
  /\ pc \in {"wfc_check", "wfc_poll", "wfc_sleep"} => ~wfc.shown
  /\ (pc = "wfc_done" /\ wfc.status = "returned") =>
       /\ images.isNone <=> ~wfc.shown
       /\ wfc.shown => images = wfc.first
       /\ ~wfc.shown => elapsed >= timeout

\* C2 witness: the wait returned a non-empty list at its second or later poll
C2_Witness ==
  pc = "wfc_done" /\ wfc.status = "returned" /\ wfc.polls >= 2 /\ Truthy(images)

\* C2 witness of the None side: polls were made and the wait timed out
C2_WitnessTimeout ==
  pc = "wfc_done" /\ wfc.status = "returned" /\ wfc.polls >= 2 /\ images.isNone

NothingWritten == \A f \in Filenames : fs[f] = Missing

\* C3: when the health check of generate_all fails (a status other than 200,
\* or any exception, none of which leaves check_comfyui_running), generate_all
\* returns with no prompt queued, OUTPUT_DIR not created and no file written;
\* prompts are queued only after a check that met status 200.
C3_NoWorkWithoutServer ==
  script = ComfyScript =>
    /\ ("generate_all" \in ran /\ health \notin {None, "200"}) =>
         /\ pc = "exit" /\ crash = None
         /\ Request("/prompt") \notin requests
         /\ ~dirExists /\ NothingWritten
         /\ idx = 0
    /\ (Request("/prompt") \in requests \/ dirExists \/ ~NothingWritten) =>
         health = "200"

\* C3 witness: generate_all ended after a health check that raised
C3_Witness ==
  /\ script = ComfyScript /\ "generate_all" \in ran
  /\ health = "KeyboardInterrupt" /\ pc = "exit"

\* C4: every HTTP request of the ComfyUI script goes to the local machine,
\* port 8188.
C4_AllRequestsToPort8188 ==
  \A r \in requests : r.host \in {"127.0.0.1", "localhost"} /\ r.port = DocumentedPort

\* the size the documentation gives to an asset of script s, by its name
DocumentedSize(s, name) ==
  CASE name[1] \in {"habit", "badge"} -> <<256, 256>>
    [] name[1] = "bg" -> <<1080, 1920>>
    [] name[1] = "coach" -> IF s = StandaloneScript THEN <<256, 256>> ELSE <<512, 512>>
    [] OTHER -> <<0, 0>>

\* C8: in both tables every habit_ and badge_ asset is 256x256 and every bg_
\* asset 1080x1920; coach_ assets are 256x256 in generate_assets.py and
\* 512x512 in generate_assets_comfyui.py; no asset has another size, and
\* these are the sizes the attempts work with.
C8_AssetSizes ==
  /\ \A s \in Scripts : \A i \in 1..Len(AssetsOf(s)) :
       <<AssetsOf(s)[i].width, AssetsOf(s)[i].height>>
          = DocumentedSize(s, AssetsOf(s)[i].name)
  /\ (script \in Scripts /\ att.asset # 0) =>
       <<att.width, att.height>> = DocumentedSize(script, AssetsOf(script)[att.asset].name)

\* C8 witness: the ComfyUI script is about to save a 512x512 coach avatar
C8_Witness ==
  /\ script = ComfyScript /\ pc = "gen_save"
  /\ ASSETS_comfyui[att.asset].name[1] = "coach" /\ att.width = 512

\* arg equals word up to the case of its letters
SameIgnoringCase(arg, word) ==
  /\ Len(arg) = Len(word)
  /\ \A i \in 1..Len(arg) :
       \/ arg[i] = word[i]
       \/ \E k \in 1..Len(LowerCase) : LowerCase[k] = word[i] /\ UpperCase[k] = arg[i]

\* the operation the documentation of generate_assets.py gives to argv
DocumentedOperation(av) ==
  IF av = <<>> THEN "usage"
  ELSE IF SameIgnoringCase(av[1], W_test) THEN "test_loading"
  ELSE IF SameIgnoringCase(av[1], W_generate) \/ SameIgnoringCase(av[1], W_ai)
       THEN "generate_all"
  ELSE IF SameIgnoringCase(av[1], W_placeholders) THEN "generate_placeholders"
  ELSE "unknown"

PcsOf(op) ==
  CASE op = "test_loading" -> {"tl_files", "tl_load", "exit", "crashed"}
    [] op = "generate_all" -> {"sa_mkdir", "sa_load", "sa_loop", "exit", "crashed"}
    [] op = "generate_placeholders" -> {"ph_mkdir", "ph_loop", "exit", "crashed"}
    [] OTHER -> {"exit"}

\* C9: generate_assets.py matches its first argument without regard to case:
\* test runs only test_loading, generate or ai only generate_all,
\* placeholders only generate_placeholders; another word prints 'Unknown
\* command' and runs none; with no argument only the usage text is printed,
\* no model is loaded and no file is written. At most one operation runs.
C9_StandaloneDispatch ==
  (script = StandaloneScript /\ pc # "main") =>
    LET op == DocumentedOperation(argv) IN
    /\ ran = {op}
    /\ pc \in PcsOf(op)
    /\ op = "usage" => out = {"Usage"} /\ loaded = {} /\ NothingWritten /\ ~dirExists
    /\ op = "unknown" => out = {"Unknown command"} /\ loaded = {} /\ NothingWritten
                           /\ ~dirExists
    /\ op = "test_loading" => NothingWritten /\ ~dirExists
    /\ op = "generate_placeholders" => loaded = {}
    /\ requests = {}

\* C9 witness: 'Test' in mixed case has started loading the checkpoints
C9_Witness ==
  script = StandaloneScript /\ argv = << <<"T","e","s","t">> >> /\ pc = "tl_load"

\* the branch the documentation of generate_assets_comfyui.py gives to argv
DocumentedComfyBranch(av) ==
  IF av = <<>> THEN "generate_all"
  ELSE IF SameIgnoringCase(av[1], W_help) THEN "help"
  ELSE IF SameIgnoringCase(av[1], W_check) THEN "check"
  ELSE IF SameIgnoringCase(av[1], W_generate) THEN "generate_all"
  ELSE "unknown"

PromptQueued == \E r \in requests : r.path = "/prompt"

\* C10: generate_assets_comfyui.py runs generate_all when it has no argument
\* or the argument generate; help only prints the setup instructions; check
\* only makes the health check and queues nothing; another word prints
\* 'Unknown command' and the usage line and queues nothing. The argument is
\* matched without regard to case.
C10_ComfyDispatch ==
  (script = ComfyScript /\ pc # "main") =>
    LET branch == DocumentedComfyBranch(argv) IN
    /\ ran = {branch}
    /\ branch = "help" => out = {"instructions"} /\ requests = {} /\ pc = "exit"
    /\ branch = "check" =>
         /\ pc \in {"cli_check", "exit"}
         /\ \A r \in requests : r.path = "/system_stats"
         /\ pc = "exit" => \E r \in requests : r.path = "/system_stats"
         /\ ~dirExists /\ NothingWritten
    /\ branch = "unknown" =>
         out = {"Unknown command", "Usage"} /\ requests = {} /\ pc = "exit"
    /\ branch = "generate_all" => "banner" \in out /\ pc # "cli_check"
    /\ PromptQueued => branch = "generate_all"

\* C10 witness: the script started without an argument has queued a prompt
C10_Witness ==
  script = ComfyScript /\ argv = <<>> /\ PromptQueued

\* ---- C7
\* a fraction in lowest terms
Reduced(num, den) ==
  LET g == GCD(IF num < 0 THEN -num ELSE num, den) IN <<num \div g, den \div g>>

\* what the description gives for a latent entry n / lden of one of the first
\* three channels: (n / lden / 0.13025 + 1) / 2, kept within [0, 1]
DocumentedValue(n, lden) ==
  LET num == 4000 * n + 521 * lden
      den == 2 * 521 * lden
  IN Reduced(IF num < 0 THEN 0 ELSE IF num > den THEN den ELSE num, den)

FallbackDecode == ai.vae_sd.conv_out_weight = NoWeight

\* the smallest and the largest entry of a latent channel
ChannelMin(ch) ==
  CHOOSE m \in {ch[y][x] : y \in 1..Len(ch), x \in 1..Len(ch[1])} :
    \A y \in 1..Len(ch), x \in 1..Len(ch[1]) : m <= ch[y][x]
ChannelMax(ch) ==
  CHOOSE m \in {ch[y][x] : y \in 1..Len(ch), x \in 1..Len(ch[1])} :
    \A y \in 1..Len(ch), x \in 1..Len(ch[1]) : m >= ch[y][x]

\* fractions a <= b, both in lowest terms
FracLeq(a, b) ==
  LET g == GCD(a[2], b[2]) IN a[1] * (b[2] \div g) <= b[1] * (a[2] \div g)

\* C7: decode_vae_simple returns an image of 8 times the latent's height and
\* width with every value within [0, 1]; without decoder.conv_out.weight the
\* image has three channels, channel c being latent channel c divided by
\* 0.13025, upsampled 8 times and mapped by (v + 1) / 2 (exactly so at the
\* four corners, within the channel's range elsewhere), and neither the other
\* latent channels nor any other entry of vae_sd change it; latent_to_image
\* then yields pixels floor(255 * value) in 0..255, none wrapped by the cast
C7_DecodeVaeSimple ==
  LET img == ai.decoded
      lat == ai.latent
      H == Height(lat)
      W == Width(lat)
  IN /\ pc \in {"vae_to_image", "vae_done"} =>
          /\ img.status = "ok"
          /\ img.height = 8 * H /\ img.width = 8 * W
          /\ Len(img.px) = img.channels
          /\ FallbackDecode => img.channels = 3
     /\ pc = "vae_to_image" =>
          /\ \A c \in 1..img.channels :
                /\ Len(img.px[c]) = 8 * H
                /\ \A Y \in 1..(8 * H) :
                      /\ Len(img.px[c][Y]) = 8 * W
                      /\ \A X \in 1..(8 * W) :
                            0 <= img.px[c][Y][X] /\ img.px[c][Y][X] <= img.den
          /\ FallbackDecode =>
               /\ \A c \in 1..3, y \in {1, H}, x \in {1, W} :
                     Reduced(img.px[c][IF y = 1 THEN 1 ELSE 8 * H]
                                      [IF x = 1 THEN 1 ELSE 8 * W], img.den)
                       = DocumentedValue(lat[c][y][x], ai.lden)
               /\ \A c \in 1..3 :
                     LET lo == DocumentedValue(ChannelMin(lat[c]), ai.lden)
                         hi == DocumentedValue(ChannelMax(lat[c]), ai.lden)
                     IN \A Y \in 1..(8 * H), X \in 1..(8 * W) :
                           LET v == Reduced(img.px[c][Y][X], img.den)
                           IN FracLeq(lo, v) /\ FracLeq(v, hi)
               /\ \A o \in {0, 1, 2} :
                     DecodeVaeSimple(lat, ai.lden, [ai.vae_sd EXCEPT !.other = o]) = img
               /\ DecodeVaeSimple(SubSeq(lat, 1, 3), ai.lden, ai.vae_sd) = img
     /\ pc = "vae_done" =>
          /\ Len(ai.pixels) = 8 * H
          /\ \A Y \in 1..(8 * H) :
                /\ Len(ai.pixels[Y]) = 8 * W
                /\ \A X \in 1..(8 * W), c \in 1..img.channels :
                      LET p == ai.pixels[Y][X][c] IN
                        /\ p \in 0..255
                        /\ p * img.den <= 255 * img.px[c][Y][X]
                        /\ 255 * img.px[c][Y][X] < (p + 1) * img.den

\* a four-channel latent of two rows decoded without conv_out into black,
\* white and intermediate pixels
C7_Witness ==
  /\ pc = "vae_done"
  /\ FallbackDecode
  /\ Channels(ai.latent) > 3
  /\ Height(ai.latent) = 2
  /\ \E Y \in 1..16, X \in 1..(8 * Width(ai.latent)) : ai.pixels[Y][X][1] = 0
  /\ \E Y \in 1..16, X \in 1..(8 * Width(ai.latent)) : ai.pixels[Y][X][2] = 255
  /\ \E Y \in 1..16, X \in 1..(8 * Width(ai.latent)) : ai.pixels[Y][X][3] \in 1..254

\* an image decoded through decoder.conv_out with some pixel clamped
C7_WitnessConvOut ==
  /\ pc = "vae_done"
  /\ ~FallbackDecode
  /\ \E Y \in 1..8, X \in 1..8 : ai.pixels[Y][X][1] = 255

\* decoder.conv_out.weight without its bias, or with more input channels than
\* the latent has, makes the decode raise
C7_WitnessRaised == pc = "vae_raised"

\* ---- C5
\* the two calls were given the same arguments but for prompt and text encoder
DifferOnlyInText ==
  /\ Len(ai.args) = 2
  /\ ai.args[2] = [ai.args[1] EXCEPT !.prompt = ai.args[2].prompt,
                                     !.text_encoder_sd = ai.args[2].text_encoder_sd]
  /\ (ai.args[2].prompt # ai.args[1].prompt)
       \/ (ai.args[2].text_encoder_sd # ai.args[1].text_encoder_sd)

BothReturned == pc = "ai_returned" /\ ai.call = 2 /\ Len(ai.images) = 2

\* C5: with a seed given, two calls of generate_with_ai that differ only in
\* the prompt or only in text_encoder_sd return the same image
C5_ImageIgnoresPromptAndTextEncoder ==
  (BothReturned /\ DifferOnlyInText /\ ai.args[1].seed # NoSeed) =>
     ai.images[1] = ai.images[2]

\* two seeded calls with different prompts, hence different contexts, that ran
\* ten steps through the transformer blocks, away from the initial noise, and
\* returned one image that is not all black and white
C5_Witness ==
  /\ BothReturned /\ DifferOnlyInText
  /\ ai.args[1].seed # NoSeed
  /\ ai.args[1].prompt # ai.args[2].prompt
  /\ ai.contexts[1] # ai.contexts[2]
  /\ ai.args[1].steps = 10
  /\ DOMAIN ai.args[1].transformer_sd.blocks # {}
  /\ ai.images[1] = ai.images[2]
  /\ ai.latent # ai.latent0
  /\ \E Y \in 1..8, X \in 1..8, c \in 1..3 : ai.images[1][Y][X][c] \in 1..254

\* two seeded calls that differ in the text encoder only
C5_WitnessTextEncoder ==
  /\ BothReturned /\ DifferOnlyInText
  /\ ai.args[1].seed # NoSeed
  /\ ai.args[1].text_encoder_sd # ai.args[2].text_encoder_sd
  /\ ai.args[1].steps > 0

\* without a seed the second image is another one
C5_WitnessUnseeded ==
  /\ BothReturned /\ DifferOnlyInText
  /\ ai.args[1].seed = NoSeed
  /\ ai.images[1] # ai.images[2]

\* ---- C6
\* the multiples of 5 up to n, in order
RECURSIVE FifthSteps(_)
FifthSteps(n) ==
  IF n < 5 THEN <<>> ELSE IF n % 5 = 0 THEN Append(FifthSteps(n - 1), n) ELSE FifthSteps(n - 1)

\* C6: the schedule has steps + 1 sigmas, uniformly from 1.0 down to 0.0 (the
\* single sigma 1.0 when steps = 0); the
\* k-th evaluation of run_transformer is at the k-th sigma, never at 0, with
\* timestep 1000 * sigma, each sigma below the one before; every update is
\* latent := latent - v * (sigma_k - sigma_k+1) with that difference 1 / steps,
\* positive, the differences adding up to 1; a progress line is printed at
\* steps 5, 10, 15, ... and at no other; the call decodes once, after exactly
\* `steps` updates, and with steps = 0 it decodes the initial noise
C6_SamplingLoop ==
  pc \in {"ai_loop", "ai_returned", "ai_raised"} =>
    LET steps == ai.args[ai.call].steps
        n == Len(ai.evals)
    IN /\ Len(ai.sigmas) = steps + 1
       /\ Reduced(ai.sigmas[1][1], ai.sigmas[1][2]) = <<1, 1>>
       /\ steps > 0 =>
             \A k \in 1..(steps + 1) :
                Reduced(ai.sigmas[k][1], ai.sigmas[k][2]) = Reduced(steps - (k - 1), steps)
       /\ n = ai.i /\ n <= steps
       /\ \A k \in 1..n :
             LET e == ai.evals[k] IN
               /\ e.sigma = ai.sigmas[k]
               /\ e.sigma[1] > 0 /\ e.sigma[2] > 0
               /\ Reduced(e.t[1], e.t[2]) = Reduced(1000 * (steps - (k - 1)), steps)
               /\ k > 1 => e.sigma[1] * ai.evals[k - 1].sigma[2]
                             < ai.evals[k - 1].sigma[1] * e.sigma[2]
               /\ e.dt[1] > 0 /\ e.dt[2] > 0
               /\ Reduced(e.dt[1], e.dt[2]) = <<1, steps>>
       /\ n = steps /\ steps > 0 =>
             SeqSum([k \in 1..n |->
                       Reduced(ai.evals[k].dt[1], ai.evals[k].dt[2])[1]
                         * (steps \div Reduced(ai.evals[k].dt[1], ai.evals[k].dt[2])[2])]) = steps
       /\ ai.printed = FifthSteps(n)
       /\ (pc = "ai_loop" /\ n > 0) =>
             \A c \in 1..LATENT_CHANNELS, y \in 1..Height(ai.latent), x \in 1..Width(ai.latent) :
                ai.latent[c][y][x] = ai.prev[c][y][x] - (ai.v[c][y][x] \div steps)
       /\ pc = "ai_loop" => ai.decodes = 0
       /\ pc = "ai_returned" =>
             /\ n = steps
             /\ ai.decodes = 1
             /\ steps = 0 => ai.latent = ai.latent0

\* a call of ten steps through the transformer blocks that moved the latent,
\* printed at steps 5 and 10 and returned
C6_Witness ==
  /\ pc = "ai_returned"
  /\ ai.args[ai.call].steps = 10
  /\ Len(ai.evals) = 10
  /\ ai.printed = <<5, 10>>
  /\ DOMAIN ai.args[ai.call].transformer_sd.blocks # {}
  /\ ai.latent # ai.latent0
  /\ \E c \in 1..LATENT_CHANNELS : ai.v[c][1][1] < 0
  /\ \E c \in 1..LATENT_CHANNELS : ai.v[c][1][1] > 0

\* a call with steps = 0 returned
C6_WitnessNoSteps ==
  /\ pc = "ai_returned"
  /\ ai.args[ai.call].steps = 0
  /\ ai.evals = <<>>

\* run_transformer raised on tokens that no proj_out brings back to 64 entries
C6_WitnessRaised == pc = "ai_raised" /\ ai.raised = "RuntimeError" /\ ai.decodes = 0

\* ---- C11
TestLoadingRan == script = StandaloneScript /\ "test_loading" \in ran

\* C11: test_loading returns True exactly when the transformer file and the
\* VAE file exist and both load_file calls returned; with one of the two
\* files missing it returns False and no load_file call was made or
\* announced; with both files there the loads are made whether or not the
\* text encoder file exists; an Exception raised by a load_file call ends in
\* the return of False, never outside
C11_TestLoading ==
  TestLoadingRan =>
    /\ pc = "exit" =>
          /\ ret \in {"True", "False"}
          /\ ret = "True" <=> /\ "transformer" \in modelFiles /\ "vae" \in modelFiles
                              /\ "transformer" \in loaded /\ "vae" \in loaded
    /\ ("transformer" \notin modelFiles \/ "vae" \notin modelFiles) =>
          /\ loaded = {}
          /\ "Loading transformer to VRAM..." \notin out
          /\ "Loading VAE to VRAM..." \notin out
          /\ pc \in {"tl_files", "exit"}
          /\ pc = "exit" => ret = "False" /\ "[ERROR] Missing" \in out
    /\ ("transformer" \in modelFiles /\ "vae" \in modelFiles /\ pc \in {"exit", "crashed"}) =>
          /\ "[ERROR] Missing" \notin out
          /\ "Loading transformer to VRAM..." \in out
    /\ pc = "crashed" => crash \notin ExceptionKinds
    /\ (pc = "exit" /\ "[FAILED]" \in out) => ret = "False"

\* test_loading returned True with no text encoder file on the disk
C11_Witness ==
  /\ TestLoadingRan /\ pc = "exit" /\ ret = "True"
  /\ modelFiles = {"transformer", "vae"}
  /\ loaded = {"transformer", "vae"}

\* the VAE load raised after the transformer was loaded, and False came back
C11_WitnessLoadFailed ==
  /\ TestLoadingRan /\ pc = "exit" /\ ret = "False"
  /\ loaded = {"transformer"} /\ "[FAILED]" \in out

\* the VAE file is missing: False without a load
C11_WitnessMissing ==
  /\ TestLoadingRan /\ pc = "exit" /\ ret = "False"
  /\ modelFiles = {"transformer", "text_encoder"} /\ loaded = {}

\* ---- C12
\* generate_all of the ComfyUI script got past its health check
Connected == script = ComfyScript /\ "ComfyUI connected!" \in out

\* the assets whose file holds a downloaded image
Generated == {k \in 1..Len(ASSETS_comfyui) :
                fs[ASSETS_comfyui[k].filename] \notin {Missing, "truncated"}}

\* what holds in every state after the health check passed
CountsRight ==
  (Connected /\ pc # "ga_mkdir" /\ ~(pc = "crashed" /\ idx = 0)) =>
    /\ idx \in 1..(Len(ASSETS_comfyui) + 1)
    /\ 0 <= success_count /\ success_count <= idx - 1
    /\ success_count <= Len(ASSETS_comfyui)
    /\ success_count = Cardinality(Generated \cap 1..(idx - 1))
    /\ Generated \subseteq 1..idx
    /\ InAttempt => att.asset = idx /\ idx <= Len(ASSETS_comfyui)
    /\ "Done" \in out => pc = "exit" /\ idx = Len(ASSETS_comfyui) + 1

\* what every step after the health check does to the loop
LoopStep ==
  Connected =>
    /\ (pc = "ga_loop" /\ pc' # "ga_loop") =>
          \/ /\ idx <= Len(ASSETS_comfyui)
             /\ pc' = "gen_queue" /\ att'.asset = idx
             /\ idx' = idx /\ success_count' = success_count
          \/ /\ idx = Len(ASSETS_comfyui) + 1
             /\ pc' = "exit" /\ "Done" \in out'
             /\ idx' = idx /\ success_count' = success_count
    /\ (InAttempt /\ pc # "gen_ret") =>
          /\ idx' = idx /\ success_count' = success_count
          /\ pc' = "crashed" \/ (InAttempt' /\ att'.asset = idx)
    /\ pc = "gen_ret" =>
          /\ pc' = "ga_loop"
          /\ idx' = idx + 1
          /\ success_count' = success_count + (IF ret = "True" THEN 1 ELSE 0)
    /\ pc \in {"exit", "crashed"} => UNCHANGED <<idx, success_count>>

\* C12: after the health check passed, generate_all attempts the assets of
\* ASSETS one at a time in table order, each once: the attempt on asset idx
\* starts only from the loop head, its return (True or False) always moves on
\* to asset idx + 1, and "Done" is printed only after the last one; the
\* success_count printed is the number of attempts that returned True, the
\* number of assets whose file holds an image, between 0 and len(ASSETS)
C12_EveryAssetOnce == [][LoopStep]_vars /\ []CountsRight

\* the run printed "Done" after one attempt returned False and the others True
C12_Witness ==
  /\ Connected /\ pc = "exit" /\ "Done" \in out
  /\ idx = Len(ASSETS_comfyui) + 1
  /\ success_count = Len(ASSETS_comfyui) - 1
  /\ faults = 1

\* an attempt in the middle of the table returned False and the next began
C12_WitnessGoesOn ==
  /\ Connected /\ pc = "gen_queue" /\ idx \in 3..(Len(ASSETS_comfyui) - 1)
  /\ success_count = idx - 2

====
